---- MODULE Spec2Model ----
(***************************************************************************)
(* A model of neuroanalysis/stimuli.py: the Stimulus tree (parent/child    *)
(* bookkeeping, global timing), save/load, eval/mask onto a sampled trace, *)
(* the lazy-loading node and the square-pulse detectors.                   *)
(***************************************************************************)
EXTENDS Integers, Sequences, FiniteSets, TLC

\* ---------------------------------------------------------------- bounds
NumNodes == 3
MaxLinks == 2
MaxTime == 1
MaxLoads == 4
MaxReads == 2

Nodes == 1..NumNodes
\* Python's None, as a parent reference.
None == 0

VARIABLES
    node,      \* node[n]: the constructor arguments of object n (type, start_time, duration, amplitude)
    created,   \* the objects constructed so far
    st,        \* st.parent[n]: n._parent(); st.items[n]: n._items; st.loads: calls of load_stimulus_items
    last,      \* the last call made: its name, arguments, the exception it raised, its result
    loader,    \* the list that loader.load_stimulus_items(source) returns
    reads,     \* how many reads of the lazy object's children the caller has made
    trace,     \* the data of the TSeries that is evaluated onto, or searched for pulses
    obj        \* the tree that is saved and loaded, as a value [type, attrs, items]

vars == <<node, created, st, last, loader, reads, trace, obj>>

\* ------------------------------------------------------- structural equality

\* Recursion deeper than every path of distinct pairs only happens on a cycle,
\* where Python raises RecursionError.
Fuel == NumNodes * NumNodes + 1

\* The values of the names in _attributes compared by __eq__ (description and
\* units are left at their defaults in every object of the model).
AttrsEqual(a, b) ==
    /\ node[a].start_time = node[b].start_time
    /\ node[a].type = "SquarePulse" =>
          /\ node[a].duration = node[b].duration
          /\ node[a].amplitude = node[b].amplitude

\* TLC evaluates a LET definition anew at every use, so a result that is read
\* more than once is bound through a one-element set, which evaluates it once.

RECURSIVE Eq(_, _, _, _), EqItems(_, _, _, _, _)
\* Stimulus.__eq__: "T", "F", or "E" when the recursion never ends.
Eq(s, a, b, fuel) ==
    IF fuel = 0 THEN "E"
    ELSE IF node[a].type # node[b].type THEN "F"
    ELSE IF Len(s.items[a]) # Len(s.items[b]) THEN "F"
    ELSE IF ~AttrsEqual(a, b) THEN "F"
    ELSE EqItems(s, a, b, 1, fuel - 1)

\* for i in range(len(self.items)): if self.items[i] != other.items[i]: return False
EqItems(s, a, b, i, fuel) ==
    IF i > Len(s.items[a]) THEN "T"
    ELSE CHOOSE out \in {IF r = "T" THEN EqItems(s, a, b, i + 1, fuel) ELSE r :
                            r \in {Eq(s, s.items[a][i], s.items[b][i], fuel)}} : TRUE

RECURSIVE ListFind(_, _, _, _)
\* The search of list.remove(x) and of `x in tuple`: the first position whose
\* element is x or equals x; 0 when there is none, -1 on RecursionError.
ListFind(s, seq, x, i) ==
    IF i > Len(seq) THEN 0
    ELSE IF seq[i] = x THEN i
    ELSE CHOOSE out \in {IF r = "T" THEN i
                         ELSE IF r = "E" THEN -1
                         ELSE ListFind(s, seq, x, i + 1) : r \in {Eq(s, seq[i], x, Fuel)}} : TRUE

SeqRemoveAt(seq, k) == [i \in 1..(Len(seq) - 1) |-> IF i < k THEN seq[i] ELSE seq[i + 1]]

\* list.insert(index, x) for 0 <= index <= len.
SeqInsertAt(seq, index, x) ==
    [i \in 1..(Len(seq) + 1) |->
        IF i <= index THEN seq[i] ELSE IF i = index + 1 THEN x ELSE seq[i - 1]]

\* ------------------------------------------------------------ tree operations

Ok(s) == [st |-> s, exc |-> "none"]
Raise(s, e) == [st |-> s, exc |-> e]

RECURSIVE SetParent(_, _, _), RemoveItem(_, _, _), AppendItem(_, _, _)
RECURSIVE AppendAll(_, _, _, _), Items(_, _)

\* The items property; the tuple it returns is the .items[self] of the result.
\* Stimulus.items reads _items; LazyLoadStimulus.items first calls the loader
\* when _items is empty and appends what the loader returns.
Items(s, self) ==
    IF node[self].type = "LazyLoadStimulus" /\ Len(s.items[self]) = 0
    THEN AppendAll(Ok([s EXCEPT !.loads = @ + 1]), self, loader, 1)
    ELSE Ok(s)

\* try: old_parent.remove_item(self); except ValueError: pass
SetParentDetach(s1, old_parent, self) ==
    IF old_parent = None THEN Ok(s1)
    ELSE CHOOSE out \in {IF r.exc = "ValueError" THEN Ok(r.st) ELSE r :
                            r \in {RemoveItem(s1, old_parent, self)}} : TRUE

\* if new_parent is not None and self not in new_parent.items: new_parent.append_item(self)
SetParentAttach(r1, self, new_parent) ==
    IF r1.exc # "none" \/ new_parent = None THEN r1
    ELSE CHOOSE out \in
           {IF r2.exc # "none" THEN r2
            ELSE CHOOSE o2 \in {IF k = -1 THEN Raise(r2.st, "RecursionError")
                                ELSE IF k = 0 THEN AppendItem(r2.st, new_parent, self)
                                ELSE r2 :
                                   k \in {ListFind(r2.st, r2.st.items[new_parent], self, 1)}} : TRUE :
              r2 \in {Items(r1.st, new_parent)}} : TRUE

\* The parent setter.
SetParent(s, self, new_parent) ==
    IF s.parent[self] = new_parent THEN Ok(s)
    ELSE CHOOSE out \in
           {SetParentAttach(r1, self, new_parent) :
              r1 \in {SetParentDetach([s EXCEPT !.parent[self] = new_parent], s.parent[self], self)}} : TRUE

RemoveItem(s, self, item) ==
    CHOOSE out \in
      {IF k = 0 THEN Raise(s, "ValueError")
       ELSE IF k = -1 THEN Raise(s, "RecursionError")
       ELSE SetParent([s EXCEPT !.items[self] = SeqRemoveAt(@, k)], item, None) :
         k \in {ListFind(s, s.items[self], item, 1)}} : TRUE

AppendItem(s, self, item) ==
    SetParent([s EXCEPT !.items[self] = Append(@, item)], item, self)

InsertItem(s, self, index, item) ==
    SetParent([s EXCEPT !.items[self] = SeqInsertAt(@, index, item)], item, self)

\* The loop `for item in items: self.append_item(item)`; stops at an exception.
\* r is the result so far.
AppendAll(r, self, its, i) ==
    IF i > Len(its) THEN r
    ELSE CHOOSE out \in {IF r1.exc # "none" THEN r1 ELSE AppendAll(r1, self, its, i + 1) :
                            r1 \in {AppendItem(r.st, self, its[i])}} : TRUE

\* Stimulus.__init__: the parent is set, then each item is appended.
Construct(s, self, its, new_parent) ==
    CHOOSE out \in {IF r.exc # "none" THEN r ELSE AppendAll(r, self, its, 1) :
                       r \in {SetParent(s, self, new_parent)}} : TRUE

\* --------------------------------------------------------------- the tree

EmptyTree == [parent |-> [n \in Nodes |-> None], items |-> [n \in Nodes |-> <<>>], loads |-> 0]

NoCall == [op |-> "none", self |-> None, arg |-> None, index |-> 0, exc |-> "none", result |-> 0]

Call(op, self, arg, index, r) ==
    [op |-> op, self |-> self, arg |-> arg, index |-> index, exc |-> r.exc, result |-> 0]

RECURSIVE SumLen(_, _)
SumLen(s, n) == IF n = 0 THEN 0 ELSE Len(s.items[n]) + SumLen(s, n - 1)

\* The model keeps at most MaxLinks entries over all children lists, and stops
\* counting the loader's calls at MaxLoads.
Room(s) == SumLen(s, NumNodes) <= MaxLinks /\ s.loads <= MaxLoads

ItemLists == {<<>>} \cup {<<a>> : a \in Nodes} \cup {<<a, b>> : a, b \in Nodes}

\* Stimulus(start_time=t), for the tree operations: objects with the same
\* start_time are structurally equal while their children are.
TreeNodes ==
    {f \in [Nodes -> [type : {"Stimulus"}, start_time : 0..MaxTime, duration : {0}, amplitude : {0}]] :
        f[1].start_time = 0}

InitTree ==
    /\ node \in TreeNodes
    /\ created = {}
    /\ st = EmptyTree
    /\ last = NoCall
    /\ loader = <<>>
    /\ reads = 0
    /\ trace = <<>>
    /\ obj = None

\* n = Stimulus(items=its, parent=p): the objects are numbered in the order
\* of their construction.
New(n, its, p) ==
    /\ n \notin created
    /\ \A m \in Nodes : m < n => m \in created
    /\ p \in created \cup {None}
    /\ \A i \in 1..Len(its) : its[i] \in created
    /\ its # <<>> => node[n].type \in {"Stimulus", "LazyLoadStimulus"}
    /\ \E r \in {Construct(st, n, its, p)} :
           /\ Room(r.st)
           /\ st' = r.st
           /\ last' = Call("init", n, p, 0, r)
    /\ created' = created \cup {n}
    /\ UNCHANGED <<node, loader, reads, trace, obj>>

\* x.parent = q
AssignParent(x, q) ==
    /\ x \in created
    /\ q \in created \cup {None}
    /\ \E r \in {SetParent(st, x, q)} :
           /\ Room(r.st)
           /\ st' = r.st
           /\ last' = Call("parent", x, q, 0, r)
    /\ UNCHANGED <<node, created, loader, reads, trace, obj>>

\* q.append_item(x)
DoAppend(q, x) ==
    /\ q \in created /\ x \in created
    /\ \E r \in {AppendItem(st, q, x)} :
           /\ Room(r.st)
           /\ st' = r.st
           /\ last' = Call("append_item", q, x, 0, r)
    /\ UNCHANGED <<node, created, loader, reads, trace, obj>>

\* q.insert_item(index, x)
DoInsert(q, index, x) ==
    /\ q \in created /\ x \in created
    /\ index \in 0..Len(st.items[q])
    /\ \E r \in {InsertItem(st, q, index, x)} :
           /\ Room(r.st)
           /\ st' = r.st
           /\ last' = Call("insert_item", q, x, index, r)
    /\ UNCHANGED <<node, created, loader, reads, trace, obj>>

\* p.remove_item(x)
DoRemove(p, x) ==
    /\ p \in created /\ x \in created
    /\ \E r \in {RemoveItem(st, p, x)} :
           /\ st' = r.st
           /\ last' = Call("remove_item", p, x, 0, r)
    /\ UNCHANGED <<node, created, loader, reads, trace, obj>>

NextTree ==
    \/ \E n \in Nodes, its \in ItemLists, p \in Nodes \cup {None} : New(n, its, p)
    \/ \E x \in Nodes, q \in Nodes \cup {None} : AssignParent(x, q)
    \/ \E q \in Nodes, x \in Nodes : DoAppend(q, x)
    \/ \E q \in Nodes, x \in Nodes, index \in 0..MaxLinks : DoInsert(q, index, x)
    \/ \E p \in Nodes, x \in Nodes : DoRemove(p, x)

SpecTree == InitTree /\ [][NextTree]_vars

\* ------------------------------------------------------------- tree claims

Count(seq, x) == Cardinality({i \in 1..Len(seq) : seq[i] = x})

\* C1: after any sequence of constructions, append_item, insert_item,
\* remove_item and parent assignments, x is in p's children list if and only
\* if x.parent is p, for all objects x and p.
C1_ParentChildConsistent ==
    \A x \in created, p \in created :
        (Count(st.items[p], x) > 0) <=> (st.parent[x] = p)

\* C2: whenever x has been given the parent q (x.parent = q, q.append_item(x),
\* q.insert_item(i, x)) from any prior state, x occurs exactly once in q's
\* children list and in no other object's children list.
C2_ChildOnceInNewParent ==
    LET x == IF last.op = "parent" THEN last.self ELSE last.arg
        q == IF last.op = "parent" THEN last.arg ELSE last.self
    IN  (last.op \in {"parent", "append_item", "insert_item"} /\ q # None /\ last.exc = "none")
        => /\ Count(st.items[q], x) = 1
           /\ \A p \in Nodes \ {q} : Count(st.items[p], x) = 0

RECURSIVE Up(_, _, _)
\* The object reached from n after k steps along .parent (None once the root is passed).
Up(s, n, k) == IF k = 0 \/ n = None THEN n ELSE Up(s, s.parent[n], k - 1)

\* The ancestry generator of n ends: a parentless object is reached within NumNodes steps.
AncestryEnds(s, n) == Up(s, n, NumNodes) = None

\* C3: after any sequence of parent assignments and append_item / insert_item /
\* remove_item calls no object is its own parent or ancestor: the ancestry of
\* every object is finite.
C3_Acyclic == \A n \in created : AncestryEnds(st, n)

\* ------------------------------------------------------------- global timing

RECURSIVE GlobalStartTime(_, _)
\* The sum of start_time over the ancestry of n (n included).
GlobalStartTime(s, n) ==
    IF n = None THEN 0 ELSE node[n].start_time + GlobalStartTime(s, s.parent[n])

GlobalEndTime(s, n) == GlobalStartTime(s, n) + node[n].duration

TotalDuration(s, n) == GlobalEndTime(s, n) - GlobalStartTime(s, n)

Max(S) == CHOOSE m \in S : \A k \in S : k <= m

\* The maximum taken one level deep only: the children's own end
\* times, not those of their subtrees.
TotalGlobalEndTimeShallow(s, n, fuel) ==
    [exc |-> "none",
     val |-> Max({GlobalEndTime(s, n)} \cup {GlobalEndTime(s, s.items[n][i]) : i \in 1..Len(s.items[n])})]

RECURSIVE TotalGlobalEndTime(_, _, _)
\* max([self.global_end_time] + [item.total_global_end_time for item in self.items]);
\* RecursionError when the children lists form a cycle. (No object of the
\* specifications that read it is a LazyLoadStimulus.)
TotalGlobalEndTime(s, n, fuel) ==
    IF fuel = 0 THEN [exc |-> "RecursionError", val |-> 0]
    ELSE CHOOSE out \in
           {IF \E i \in 1..Len(rs) : rs[i].exc # "none"
            THEN [exc |-> "RecursionError", val |-> 0]
            ELSE [exc |-> "none",
                  val |-> Max({GlobalEndTime(s, n)} \cup {rs[i].val : i \in 1..Len(rs)})] :
              rs \in {[i \in 1..Len(s.items[n]) |-> TotalGlobalEndTime(s, s.items[n][i], fuel - 1)]}} : TRUE

RECURSIVE Reach(_, _, _)
\* n and the objects below it: those reached through children lists in at most k steps.
Reach(s, n, k) ==
    IF k = 0 THEN {n}
    ELSE {n} \cup UNION {Reach(s, s.items[n][i], k - 1) : i \in 1..Len(s.items[n])}

Subtree(s, n) == Reach(s, n, NumNodes)

\* Stimulus(start_time=t) and SquarePulse(start_time=0, duration=d, amplitude=1).
TimeNodes ==
    [Nodes -> [type : {"Stimulus"}, start_time : {0, MaxTime}, duration : {0}, amplitude : {0}]
              \cup [type : {"SquarePulse"}, start_time : {0}, duration : {MaxTime}, amplitude : {1}]]

InitTime ==
    /\ node \in TimeNodes
    /\ created = {}
    /\ st = EmptyTree
    /\ last = NoCall
    /\ loader = <<>>
    /\ reads = 0
    /\ trace = <<>>
    /\ obj = None

\* n.total_global_end_time; the ancestry loop of global_start_time never
\* returns on a parent cycle, so the read is modelled where it returns.
ReadTotalGlobalEndTime(n) ==
    /\ n \in created
    /\ \A m \in Subtree(st, n) : AncestryEnds(st, m)
    /\ \E r \in {TotalGlobalEndTime(st, n, NumNodes + 1)} :
           last' = [op |-> "total_global_end_time", self |-> n, arg |-> None, index |-> 0,
                    exc |-> r.exc, result |-> r.val]
    /\ UNCHANGED <<node, created, st, loader, reads, trace, obj>>

\* n.total_duration
ReadTotalDuration(n) ==
    /\ n \in created
    /\ AncestryEnds(st, n)
    /\ last' = [op |-> "total_duration", self |-> n, arg |-> None, index |-> 0,
                exc |-> "none", result |-> TotalDuration(st, n)]
    /\ UNCHANGED <<node, created, st, loader, reads, trace, obj>>

NextTime ==
    \/ \E n \in Nodes, its \in ItemLists, p \in Nodes \cup {None} : New(n, its, p)
    \/ \E n \in Nodes : ReadTotalGlobalEndTime(n)

SpecTime == InitTime /\ [][NextTime]_vars

NextDuration ==
    \/ \E n \in Nodes, its \in ItemLists, p \in Nodes \cup {None} : New(n, its, p)
    \/ \E n \in Nodes : ReadTotalDuration(n)

SpecDuration == InitTime /\ [][NextDuration]_vars

\* The children lists below n hold no cycle, so the subtree of n is finite.
ItemsAcyclic(s, n) == TotalGlobalEndTime(s, n, NumNodes + 1).exc = "none"

\* The largest global_end_time among n and all its descendants.
SubtreeEnd(s, n) == Max({GlobalEndTime(s, m) : m \in Subtree(s, n)})

\* C9: for every node of a finite acyclic tree, total_global_end_time is the
\* maximum of global_end_time (the start_time summed over the ancestry, plus the
\* duration) over the node and all its descendants at every depth.
C9_TotalGlobalEndTimeIsSubtreeMax ==
    (last.op = "total_global_end_time" /\ last.exc = "none")
        => last.result = SubtreeEnd(st, last.self)

\* A grandchild ends last: deeper than the children that the node's own list holds.
C9_Witness ==
    /\ last.op = "total_global_end_time" /\ last.exc = "none"
    /\ \E c \in Nodes, g \in Nodes :
          /\ Count(st.items[last.self], c) = 1 /\ Count(st.items[c], g) = 1
          /\ st.parent[c] = last.self /\ st.parent[g] = c
          /\ GlobalEndTime(st, g) > GlobalEndTime(st, c)
          /\ GlobalEndTime(st, g) > GlobalEndTime(st, last.self)
          /\ last.result = GlobalEndTime(st, g)

\* C10: total_duration is the total duration of the node and all its children:
\* the largest global_end_time of its subtree minus its own global_start_time.
C10_TotalDurationCoversSubtree ==
    (last.op = "total_duration" /\ ItemsAcyclic(st, last.self)
        /\ \A m \in Subtree(st, last.self) : AncestryEnds(st, m))
        => last.result = SubtreeEnd(st, last.self) - GlobalStartTime(st, last.self)

\* ------------------------------------------------------ the lazy-loading node

\* The LazyLoadStimulus of the model; the other objects are its possible
\* children. It is never given a parent, so __eq__ never meets it inside
\* another object's children list.
Z == 1
Kids == Nodes \ {Z}

LoaderResults == {<<>>} \cup {<<a>> : a \in Kids} \cup {<<a, b>> \in Kids \X Kids : a # b}

LazyNodes ==
    {f \in [Nodes -> [type : {"LazyLoadStimulus", "Stimulus"}, start_time : {0, MaxTime},
                      duration : {0}, amplitude : {0}]] :
        /\ f[Z].type = "LazyLoadStimulus" /\ f[Z].start_time = 0
        /\ \A k \in Kids : f[k].type = "Stimulus"}

\* z = LazyLoadStimulus("z", loader=loader, source=source), and the other
\* objects constructed without parent or children.
InitLazy ==
    /\ node \in LazyNodes
    /\ created = Nodes
    /\ st = EmptyTree
    /\ last = NoCall
    /\ loader \in LoaderResults
    /\ reads = 0
    /\ trace = <<>>
    /\ obj = None

ReadOps == {"items", "eval", "mask", "save", "total_global_end_time"}

\* z.items, and the one read of self.items that z.eval(), z.mask(), z.save()
\* and z.total_global_end_time each start with.
ReadChildren(op) ==
    /\ reads < MaxReads
    /\ \E r \in {Items(st, Z)} :
           /\ Room(r.st)
           /\ st' = r.st
           /\ last' = [op |-> op, self |-> Z, arg |-> None, index |-> 0, exc |-> r.exc, result |-> 0]
    /\ reads' = reads + 1
    /\ UNCHANGED <<node, created, loader, trace, obj>>

RECURSIVE ItemsTimes(_, _, _)
\* k reads of self.items in a row; an exception ends them.
ItemsTimes(r, self, k) ==
    IF k = 0 THEN r
    ELSE CHOOSE out \in {IF r1.exc # "none" THEN r1 ELSE ItemsTimes(r1, self, k - 1) :
                            r1 \in {Items(r.st, self)}} : TRUE

\* The reads of z == z: len(self.items), len(other.items), range(len(self.items)),
\* then two per child, which find the list filled.
EqReads(s) == ItemsTimes(Ok(s), Z, 3)

\* z == z
ReadEq ==
    /\ reads < MaxReads
    /\ \E r \in {EqReads(st)} :
           /\ Room(r.st)
           /\ st' = r.st
           /\ last' = [op |-> "__eq__", self |-> Z, arg |-> Z, index |-> 0, exc |-> r.exc, result |-> 0]
    /\ reads' = reads + 1
    /\ UNCHANGED <<node, created, loader, trace, obj>>

NextLazy ==
    \/ \E op \in ReadOps : ReadChildren(op)
    \/ ReadEq
    \/ \E x \in Kids, q \in {Z, None} : AssignParent(x, q)
    \/ \E x \in Kids : DoAppend(Z, x)
    \/ \E x \in Kids : DoRemove(Z, x)

SpecLazy == InitLazy /\ [][NextLazy]_vars

\* C8: whatever the loader returns and however reads of the children are mixed
\* with additions and removals, once the children have been read
\* load_stimulus_items has been called exactly once.
C8_LoaderInvokedExactlyOnce == reads > 0 => st.loads = 1

\* ------------------------------------------------------------ save and load

\* Stimulus.load builds new objects, so the trees of this part are values
\* [type, attrs, items]: attrs holds the attributes the constructor sets,
\* items the children list.
MaxObjs == 3

\* cls._attributes
Attributes(type) ==
    {"description", "start_time", "units"} \cup
    CASE type = "Offset" -> {"amplitude"}
      [] type = "SquarePulse" -> {"duration", "amplitude"}
      [] type = "SquarePulseTrain" -> {"n_pulses", "pulse_duration", "amplitude", "interval"}
      [] type = "SquarePulseSeries" -> {"pulse_times", "pulse_durations", "amplitudes"}
      [] type = "Ramp" -> {"duration", "slope", "initial_amplitude"}
      [] type = "Sine" -> {"duration", "frequency", "amplitude", "phase"}
      [] type = "Chirp" -> {"duration", "start_frequency", "end_frequency", "amplitude", "phase", "offset"}
      [] type = "Psp" -> {"rise_time", "decay_tau", "amplitude", "rise_power"}
      [] OTHER -> {}

\* The parameters of __init__ that have no default.
Required(type) ==
    CASE type = "LazyLoadStimulus" -> {"description"}
      [] type = "Offset" -> {"amplitude"}
      [] type = "SquarePulse" -> {"start_time", "duration", "amplitude"}
      [] type = "SquarePulseTrain" -> {"start_time", "n_pulses", "pulse_duration", "amplitude", "interval"}
      [] type = "SquarePulseSeries" -> {"start_time", "pulse_times", "pulse_durations", "amplitudes"}
      [] type = "Ramp" -> {"start_time", "duration", "slope"}
      [] type = "Sine" -> {"start_time", "duration", "frequency", "amplitude"}
      [] type = "Chirp" -> {"start_time", "duration", "start_frequency", "end_frequency", "amplitude"}
      [] type = "Psp" -> {"start_time", "rise_time", "decay_tau", "amplitude"}
      [] OTHER -> {}

\* The parameters of __init__ that have a default, with it; the default of
\* parent, loader and source is Python's None.
Defaults(type) ==
    [units |-> "None", parent |-> "None"] @@
    CASE type = "Stimulus" -> [description |-> "stimulus", start_time |-> 0, items |-> "None"]
      [] type = "LazyLoadStimulus" -> [start_time |-> 0, items |-> "None", loader |-> "None", source |-> "None"]
      [] type = "Offset" -> [description |-> "offset", start_time |-> 0]
      [] type = "SquarePulse" -> [description |-> "square pulse"]
      [] type = "SquarePulseTrain" -> [description |-> "square pulse train"]
      [] type = "SquarePulseSeries" -> [description |-> "square pulse train"]
      [] type = "Ramp" -> [description |-> "linear ramp", offset |-> 0]
      [] type = "Sine" -> [description |-> "sine wave", phase |-> 0, offset |-> 0]
      [] type = "Chirp" -> [description |-> "frequency chirp", phase |-> 0, offset |-> 0]
      [] type = "Psp" -> [description |-> "frequency chirp", rise_power |-> 2]

\* The keyword arguments __init__ accepts.
Params(type) == Required(type) \cup DOMAIN Defaults(type)

\* The attributes __init__ stores under the parameter's name (start_time is
\* read through the property of that name); duration is set apart.
InstanceAttrs(type) == Params(type) \ {"items", "parent", "loader", "source"}

\* self.duration: what the subclass set, Psp's property, or Stimulus's 0.
Duration(type, kw) ==
    IF "duration" \in DOMAIN kw THEN kw.duration
    ELSE IF type = "Psp" THEN 15 * (IF kw.rise_time >= kw.decay_tau THEN kw.rise_time ELSE kw.decay_tau)
    ELSE 0

\* getattr(self, name) == getattr(other, name) for every name of _attributes;
\* "AttributeError" when the object has no such attribute.
ObjAttrsEqual(a, b) ==
    IF ~(Attributes(a.type) \subseteq DOMAIN a.attrs) THEN "AttributeError"
    ELSE IF \A name \in Attributes(a.type) : a.attrs[name] = b.attrs[name] THEN "T"
    ELSE "F"

RECURSIVE ObjEq(_, _), ObjEqItems(_, _, _)
\* Stimulus.__eq__ on two trees; none of the trees it is used on holds a
\* LazyLoadStimulus at a place where the types agree.
ObjEq(a, b) ==
    IF a.type # b.type THEN "F"
    ELSE IF Len(a.items) # Len(b.items) THEN "F"
    ELSE CHOOSE out \in {IF r # "T" THEN r ELSE ObjEqItems(a, b, 1) : r \in {ObjAttrsEqual(a, b)}} : TRUE

ObjEqItems(a, b, i) ==
    IF i > Len(a.items) THEN "T"
    ELSE CHOOSE out \in {IF r = "T" THEN ObjEqItems(a, b, i + 1) ELSE r :
                            r \in {ObjEq(a.items[i], b.items[i])}} : TRUE

\* SquarePulse(..., parent=self): the parent setter appends the pulse unless
\* `self not in new_parent.items` finds an equal one.
AddByParent(its, pulse) ==
    IF \E i \in 1..Len(its) : ObjEq(its[i], pulse) = "T" THEN its ELSE Append(its, pulse)

\* The object __init__ leaves when it gets these keyword arguments and no children.
Instance(type, kw) ==
    [type |-> type,
     attrs |-> [name \in InstanceAttrs(type) |-> (kw @@ Defaults(type))[name]]
                  @@ [duration |-> Duration(type, kw)],
     items |-> <<>>]

RECURSIVE TrainPulses(_, _, _)
\* for i,t in enumerate(np.arange(n_pulses) * interval): SquarePulse(start_time=t, ..., parent=self)
TrainPulses(kw, i, its) ==
    IF i >= kw.n_pulses THEN its
    ELSE TrainPulses(kw, i + 1,
            AddByParent(its, Instance("SquarePulse",
                [start_time |-> i * kw.interval, duration |-> kw.pulse_duration,
                 amplitude |-> kw.amplitude, units |-> (kw @@ Defaults("SquarePulse")).units])))

RECURSIVE SeriesPulses(_, _, _)
\* for i,t in enumerate(pulse_times): SquarePulse(start_time=t, duration=pulse_durations[i], ...)
SeriesPulses(kw, i, its) ==
    IF i > Len(kw.pulse_times) THEN its
    ELSE SeriesPulses(kw, i + 1,
            AddByParent(its, Instance("SquarePulse",
                [start_time |-> kw.pulse_times[i], duration |-> kw.pulse_durations[i],
                 amplitude |-> kw.amplitudes[i], units |-> (kw @@ Defaults("SquarePulse")).units])))

\* item_class(**kw), or item_class(items=child_items, **kw) when there are
\* children: Python's binding of the keyword arguments, then __init__.
NewObj(type, kw, child_items) ==
    LET keys == DOMAIN kw \cup (IF Len(child_items) > 0 THEN {"items"} ELSE {})
    IN  IF ~(keys \subseteq Params(type)) \/ ~(Required(type) \subseteq keys)
        THEN [exc |-> "TypeError", obj |-> None]
        ELSE IF type = "LazyLoadStimulus" /\ ~({"loader", "source"} \subseteq keys)
        THEN [exc |-> "Exception", obj |-> None]
        ELSE IF type = "SquarePulseSeries"
                /\ ~(Len(kw.pulse_times) = Len(kw.pulse_durations) /\ Len(kw.pulse_durations) = Len(kw.amplitudes))
        THEN [exc |-> "AssertionError", obj |-> None]
        ELSE [exc |-> "none",
              obj |-> [Instance(type, kw) EXCEPT !.items =
                          IF type = "SquarePulseTrain" THEN TrainPulses(kw, 0, <<>>)
                          ELSE IF type = "SquarePulseSeries" THEN SeriesPulses(kw, 1, <<>>)
                          ELSE child_items]]

\* self.items: a LazyLoadStimulus whose list is empty appends what the loader returns.
ObjItems(o) ==
    IF o.type = "LazyLoadStimulus" /\ Len(o.items) = 0 THEN [o EXCEPT !.items = loader] ELSE o

RECURSIVE Save(_), SaveItems(_, _, _, _)
\* Stimulus.save, with the overrides of SquarePulseTrain and SquarePulseSeries:
\* val is the state that is returned, obj the object after the call.
Save(o) ==
    IF ~(Attributes(o.type) \subseteq DOMAIN o.attrs)
    THEN [exc |-> "AttributeError", val |-> None, obj |-> o]
    ELSE CHOOSE out \in
           {[exc |-> r.exc,
             val |-> [type |-> o.type,
                      args |-> [name \in Attributes(o.type) \cup {"start_time"} |-> o.attrs[name]],
                      items |-> IF o.type \in {"SquarePulseTrain", "SquarePulseSeries"} THEN <<>> ELSE r.vals],
             obj |-> [o EXCEPT !.items = r.objs]] :
              r \in {SaveItems(ObjItems(o).items, 1, <<>>, <<>>)}} : TRUE

\* [item.save() for item in self.items]; an exception ends the loop.
SaveItems(its, i, vals, objs) ==
    IF i > Len(its) THEN [exc |-> "none", vals |-> vals, objs |-> objs]
    ELSE CHOOSE out \in
           {IF r.exc # "none"
            THEN [exc |-> r.exc, vals |-> vals, objs |-> objs \o <<r.obj>> \o SubSeq(its, i + 1, Len(its))]
            ELSE SaveItems(its, i + 1, Append(vals, r.val), Append(objs, r.obj)) :
              r \in {Save(its[i])}} : TRUE

RECURSIVE Load(_), LoadItems(_, _, _)
\* Stimulus.load
Load(state) ==
    CHOOSE out \in
      {IF r.exc # "none" THEN [exc |-> r.exc, obj |-> None]
       ELSE NewObj(state.type, state.args, r.objs) :
         r \in {LoadItems(state.items, 1, <<>>)}} : TRUE

\* child_items = [cls.load(item_state) for item_state in state.get('items', [])]
LoadItems(states, i, objs) ==
    IF i > Len(states) THEN [exc |-> "none", objs |-> objs]
    ELSE CHOOSE out \in
           {IF r.exc # "none" THEN [exc |-> r.exc, objs |-> objs]
            ELSE LoadItems(states, i + 1, Append(objs, r.obj)) :
              r \in {Load(states[i])}} : TRUE

RECURSIVE ObjSize(_), ObjSizeItems(_, _)
\* The number of objects of a tree.
ObjSize(o) == 1 + ObjSizeItems(o.items, 1)
ObjSizeItems(its, i) == IF i > Len(its) THEN 0 ELSE ObjSize(its[i]) + ObjSizeItems(its, i + 1)

\* One object of each variant, as its constructor builds it.
Leaves ==
    {NewObj("Stimulus", [start_time |-> t], <<>>).obj : t \in {0, 1}}
    \cup {NewObj("LazyLoadStimulus", [description |-> "lazy", loader |-> "L", source |-> "S"], <<>>).obj}
    \cup {NewObj("Offset", [amplitude |-> 1], <<>>).obj}
    \cup {NewObj("SquarePulse", [start_time |-> t, duration |-> 1, amplitude |-> 1], <<>>).obj : t \in {0, 1}}
    \cup {NewObj("SquarePulseTrain", [start_time |-> 0, n_pulses |-> n, pulse_duration |-> 1,
                                      amplitude |-> 1, interval |-> i], <<>>).obj : n \in {0, 2}, i \in {0, 2}}
    \cup {NewObj("SquarePulseSeries", [start_time |-> 0, pulse_times |-> <<0, 2>>, pulse_durations |-> <<1, 1>>,
                                       amplitudes |-> <<1, 1>>], <<>>).obj}
    \cup {NewObj("Ramp", [start_time |-> 0, duration |-> 1, slope |-> 1], <<>>).obj}
    \cup {NewObj("Sine", [start_time |-> 0, duration |-> 1, frequency |-> 1, amplitude |-> 1, offset |-> o], <<>>).obj :
            o \in {0, 1}}
    \cup {NewObj("Chirp", [start_time |-> 0, duration |-> 1, start_frequency |-> 1, end_frequency |-> 2,
                           amplitude |-> 1], <<>>).obj}
    \cup {NewObj("Psp", [start_time |-> 0, rise_time |-> 1, decay_tau |-> 2, amplitude |-> 1], <<>>).obj}

\* What the loader hands out: nothing, or one pulse.
SaveLoaderResults ==
    {<<>>, <<NewObj("SquarePulse", [start_time |-> 0, duration |-> 1, amplitude |-> 1], <<>>).obj>>}

InitSave ==
    /\ node = [n \in Nodes |-> [type |-> "Stimulus", start_time |-> 0, duration |-> 0, amplitude |-> 0]]
    /\ created = {}
    /\ st = EmptyTree
    /\ last = NoCall
    /\ loader \in SaveLoaderResults
    /\ reads = 0
    /\ trace = <<>>
    /\ obj \in Leaves

\* obj.append_item(x), x a new object: x has no parent, and the setter finds
\* x in the list it was just appended to.
SaveAppend(x) ==
    /\ ObjSize(obj) < MaxObjs
    /\ obj' = [obj EXCEPT !.items = Append(@, x)]
    /\ last' = [NoCall EXCEPT !.op = "append_item"]
    /\ UNCHANGED <<node, created, st, loader, reads, trace>>

\* obj = Stimulus(start_time=t, items=[obj])
SaveWrap(t) ==
    /\ ObjSize(obj) < MaxObjs
    /\ obj' = NewObj("Stimulus", [start_time |-> t], <<obj>>).obj
    /\ last' = [NoCall EXCEPT !.op = "init"]
    /\ UNCHANGED <<node, created, st, loader, reads, trace>>

\* The comparison the round trip is judged by: == on the trees, and for a
\* SquarePulseTrain or SquarePulseSeries the declared parameters.
RoundTripEqual(a, b) ==
    IF a.type \in {"SquarePulseTrain", "SquarePulseSeries"} /\ a.type = b.type
    THEN ObjAttrsEqual(a, b)
    ELSE ObjEq(a, b)

\* state = obj.save(); copy = Stimulus.load(state); copy == obj
SaveLoad ==
    /\ \E s \in {Save(obj)} :
          /\ obj' = s.obj
          /\ IF s.exc # "none"
             THEN last' = [NoCall EXCEPT !.op = "save", !.exc = s.exc]
             ELSE \E l \in {Load(s.val)} :
                    IF l.exc # "none"
                    THEN last' = [NoCall EXCEPT !.op = "load", !.exc = l.exc]
                    ELSE \E e \in {RoundTripEqual(s.obj, l.obj)} :
                           last' = [NoCall EXCEPT !.op = "load",
                                                  !.exc = IF e \in {"T", "F"} THEN "none" ELSE e,
                                                  !.result = IF e = "T" THEN 1 ELSE 0]
    /\ UNCHANGED <<node, created, st, loader, reads, trace>>

NextSave ==
    \/ \E x \in Leaves : SaveAppend(x)
    \/ \E t \in {0, 1} : SaveWrap(t)
    \/ SaveLoad

SpecSave == InitSave /\ [][NextSave]_vars

\* C4: for every tree built from the variants, save() completes, and
\* Stimulus.load of the saved state completes and returns a tree equal (==) to
\* the original (for a SquarePulseTrain or SquarePulseSeries: equal in the
\* declared parameters).
C4_SaveLoadRoundTrip ==
    last.op \in {"save", "load"} => (last.op = "load" /\ last.exc = "none" /\ last.result = 1)

\* ------------------------------------------------------------ eval and mask

\* The TSeries that is evaluated onto has t0 = 0 and dt = DT time units, so
\* that times between two samples exist; it has n samples, numbered from 0,
\* sample i being data[i + 1] here.
DT == 2
MaxPts == 2
MantBits == 2

\* TSeries.index_at: the sample index of time t under an index mode; None
\* stands for 'round', and a tie rounds to the even index.
IndexAt(t, index_mode) ==
    LET q == t \div DT
        r == t % DT
    IN  IF index_mode = "floor" THEN q
        ELSE IF index_mode = "ceil" THEN (IF r = 0 THEN q ELSE q + 1)
        ELSE IF 2 * r < DT THEN q
        ELSE IF 2 * r > DT THEN q + 1
        ELSE IF q % 2 = 0 THEN q ELSE q + 1

\* TSeries.time_slice(start, stop): the samples of the view.
TimeSlice(start, stop, index_mode, n) ==
    {i \in 0..(n - 1) : IndexAt(start, index_mode) <= i /\ i < IndexAt(stop, index_mode)}

\* TSeries.time_at
TimeAt(i) == i * DT

\* data[start_ind:] of an array of n samples: a negative index counts from the end.
SliceFrom(start_ind, n) ==
    LET lo == IF start_ind >= 0 THEN start_ind
              ELSE IF n + start_ind < 0 THEN 0 ELSE n + start_ind
    IN  {i \in 0..(n - 1) : i >= lo}

Abs(x) == IF x < 0 THEN 0 - x ELSE x

RECURSIVE Ulp(_, _)
\* The spacing of the floating-point numbers around x: numbers carry MantBits
\* significant bits (float64 carries 53).
Ulp(x, u) == IF Abs(x) < (2 ^ MantBits) * u THEN u ELSE Ulp(x, 2 * u)

\* x rounded to the nearest floating-point number, a tie to the even one.
Fl(x) ==
    LET u == Ulp(x, 1)
        q == x \div u
        r == x % u
    IN  IF r = 0 THEN x
        ELSE IF 2 * r < u THEN q * u
        ELSE IF 2 * r > u THEN (q + 1) * u
        ELSE IF q % 2 = 0 THEN q * u ELSE (q + 1) * u

\* a + b in floating point
FlAdd(a, b) == Fl(a + b)

\* The largest amplitude of the model: the first number whose successor is two away.
Big == 2 ^ MantBits

\* np.zeros(n_pts); exact records that no addition so far was rounded.
Zeros(n) == [data |-> [i \in 1..n |-> 0], exact |-> TRUE]

\* region.data[:] += v over the samples S
AddOver(buf, S, v) ==
    [data |-> [i \in 1..Len(buf.data) |-> IF (i - 1) \in S THEN FlAdd(buf.data[i], v) ELSE buf.data[i]],
     exact |-> buf.exact /\ \A i \in 1..Len(buf.data) : (i - 1) \in S => FlAdd(buf.data[i], v) = buf.data[i] + v]

\* region.data[:] = True
SetOver(buf, S) ==
    [buf EXCEPT !.data = [i \in 1..Len(buf.data) |-> IF (i - 1) \in S THEN 1 ELSE buf.data[i]]]

\* The samples an object writes itself: none for a Stimulus, data[start_ind:]
\* for an Offset, the time slice of its window for a SquarePulse.
OwnSamples(s, n, index_mode, pts) ==
    IF node[n].type = "Offset"
    THEN SliceFrom(IndexAt(GlobalStartTime(s, n), index_mode), pts)
    ELSE IF node[n].type = "SquarePulse"
    THEN TimeSlice(GlobalStartTime(s, n), GlobalStartTime(s, n) + node[n].duration, index_mode, pts)
    ELSE {}

\* The assignment trace.data[...] = amplitude in place of the addition +=.
OwnAssign(s, n, buf, index_mode, op) ==
    [buf EXCEPT !.data = [i \in 1..Len(buf.data) |->
        IF (i - 1) \in OwnSamples(s, n, index_mode, Len(buf.data))
        THEN (IF op = "mask" THEN 1 ELSE node[n].amplitude) ELSE buf.data[i]]]

\* The statements of Offset/SquarePulse eval and mask after the call of Stimulus.eval / Stimulus.mask.
Own(s, n, buf, index_mode, op) ==
    IF op = "mask" THEN SetOver(buf, OwnSamples(s, n, index_mode, Len(buf.data)))
    ELSE IF node[n].type = "Stimulus" THEN buf
    ELSE AddOver(buf, OwnSamples(s, n, index_mode, Len(buf.data)), node[n].amplitude)

RECURSIVE EvalNode(_, _, _, _, _, _), EvalItems(_, _, _, _, _, _, _)
\* Stimulus.eval with 'floor' as the default of its index_mode parameter.
EvalNodeFloor(s, n, buf, index_mode, op, fuel) ==
    IF fuel = 0 THEN buf
    ELSE CHOOSE out \in
           {Own(s, n, b, index_mode, op) :
              b \in {EvalItems(s, s.items[n], 1, buf, IF index_mode = "None" THEN "floor" ELSE index_mode,
                               op, fuel - 1)}} : TRUE

\* n.eval(trace=buf, index_mode=index_mode) or n.mask(...): Stimulus.eval
\* hands its own index_mode parameter (default 'round') to the children, the
\* subclass reads kwds.get('index_mode'). No object here is a LazyLoadStimulus.
EvalNode(s, n, buf, index_mode, op, fuel) ==
    IF fuel = 0 THEN buf
    ELSE CHOOSE out \in
           {Own(s, n, b, index_mode, op) :
              b \in {EvalItems(s, s.items[n], 1, buf, IF index_mode = "None" THEN "round" ELSE index_mode,
                               op, fuel - 1)}} : TRUE

\* for item in self.items: item.eval(trace=trace, index_mode=index_mode)
EvalItems(s, its, i, buf, index_mode, op, fuel) ==
    IF i > Len(its) THEN buf
    ELSE CHOOSE out \in
           {EvalItems(s, its, i + 1, b, index_mode, op, fuel) :
              b \in {EvalNode(s, its[i], buf, index_mode, op, fuel)}} : TRUE

IndexModes == {"None", "round", "floor", "ceil"}

\* The orders of a list of k children, as index maps.
Perms(k) == {p \in [1..k -> 1..k] : \A i, j \in 1..k : p[i] = p[j] => i = j}

\* The tree with the children list of m reordered by p.
PermuteItems(s, m, p) == [s EXCEPT !.items[m] = [i \in 1..Len(@) |-> @[p[i]]]]

\* The objects n can be evaluated on: below n the children lists are finite
\* and every ancestry ends.
Evaluable(s, n) == (\A m \in Subtree(s, n) : AncestryEnds(s, m)) /\ ItemsAcyclic(s, n)

\* Stimulus(), SquarePulse(0, DT, 1) and Offset(-Big): all windows overlap.
EvalNodeSet ==
    {[type |-> "Stimulus", start_time |-> 0, duration |-> 0, amplitude |-> 0],
     [type |-> "SquarePulse", start_time |-> 0, duration |-> DT, amplitude |-> 1],
     [type |-> "Offset", start_time |-> 0, duration |-> 0, amplitude |-> 0 - Big]}

InitEval ==
    /\ node \in [Nodes -> EvalNodeSet]
    /\ created = {}
    /\ st = EmptyTree
    /\ last = NoCall
    /\ loader = <<>>
    /\ reads = 0
    /\ trace = <<>>
    /\ obj = None

\* n.eval(...) or n.mask(...) with the children of m, an object of n's tree,
\* in their order and in the order p, on a new trace of pts samples
\* (filled = 0) or on a trace= whose samples hold the value filled. The call
\* changes no object and its result is kept in `last` alone, so a call that
\* follows another call reaches nothing that a first call does not.
EvalPermuted(op, n, m, p, index_mode, pts, filled) ==
    /\ last.op \notin {"eval", "mask"}
    /\ n \in created
    /\ Len(st.items[m]) >= 2
    /\ DOMAIN p = 1..Len(st.items[m])
    /\ \E i \in 1..Len(st.items[m]) : p[i] # i
    /\ m \in Subtree(st, n)
    /\ Evaluable(st, n)
    /\ \E buf \in {[data |-> [i \in 1..pts |-> filled], exact |-> TRUE]} :
          last' = [op |-> op, self |-> n, arg |-> m, index |-> index_mode, exc |-> "none",
                   result |-> [out |-> EvalNode(st, n, buf, index_mode, op, NumNodes + 1),
                               permuted |-> EvalNode(PermuteItems(st, m, p), n, buf, index_mode, op, NumNodes + 1)]]
    /\ UNCHANGED <<node, created, st, loader, reads, trace, obj>>

NextEval ==
    \/ \E n \in Nodes, its \in ItemLists, p \in Nodes \cup {None} : New(n, its, p)
    \/ \E op \in {"eval", "mask"}, n \in Nodes, m \in Nodes, p \in UNION {Perms(k) : k \in 2..MaxLinks},
          index_mode \in {"None", "ceil"}, filled \in {0, Big} :
          EvalPermuted(op, n, m, p, index_mode, MaxPts, filled)

SpecEval == InitEval /\ [][NextEval]_vars

\* C6 as stated: eval gives the same sample values for every order of the
\* children list of any object of the tree, and so does mask.
C6_OrderIndependent ==
    last.op \in {"eval", "mask"} => last.result.out.data = last.result.permuted.data

\* C6, amended: mask gives the same samples for every order of the children;
\* eval gives the same sample values whenever no addition was rounded in
\* either order.
C6_OrderIndependentWhenExact ==
    /\ last.op = "mask" => last.result.out.data = last.result.permuted.data
    /\ (last.op = "eval" /\ last.result.out.exact /\ last.result.permuted.exact)
          => last.result.out.data = last.result.permuted.data

\* A pulse and an offset that overlap, evaluated in both orders
\* without rounding: both amplitudes are in the result.
C6_Witness ==
    /\ last.op = "eval" /\ last.result.out.exact /\ last.result.permuted.exact
    /\ last.self = last.arg /\ node[last.self].type = "Stimulus"
    /\ \E a, b \in Nodes :
          /\ node[a].type = "SquarePulse" /\ node[b].type = "Offset"
          /\ st.items[last.self] = <<a, b>>
          /\ last.result.out.data[1] = node[a].amplitude + node[b].amplitude
          /\ last.result.permuted.data[1] = node[a].amplitude + node[b].amplitude

\* ------------------------------------------------------------------- mask

\* Stimulus(start_time=t), SquarePulse(t, DT, 1) and Offset(1, start_time=t),
\* with start times between samples and, for an Offset, before the trace.
MaskNodeSet ==
    [type : {"Stimulus"}, start_time : {0, 1}, duration : {0}, amplitude : {0}]
    \cup [type : {"SquarePulse"}, start_time : {0, 1}, duration : {DT}, amplitude : {1}]
    \cup [type : {"Offset"}, start_time : {0 - DT, DT}, duration : {0}, amplitude : {1}]

InitMask ==
    /\ node \in [Nodes -> MaskNodeSet]
    /\ created = {}
    /\ st = EmptyTree
    /\ last = NoCall
    /\ loader = <<>>
    /\ reads = 0
    /\ trace = <<>>
    /\ obj = None

\* n.mask(n_pts=pts, dt=DT, index_mode=index_mode); index_mode "None" is a
\* call without that argument.
DoMask(n, index_mode, pts) ==
    /\ n \in created
    /\ Evaluable(st, n)
    /\ \E out \in {EvalNode(st, n, Zeros(pts), index_mode, "mask", NumNodes + 1)} :
          last' = [op |-> "mask", self |-> n, arg |-> None, index |-> index_mode, exc |-> "none",
                   result |-> [out |-> out]]
    /\ UNCHANGED <<node, created, st, loader, reads, trace, obj>>

NextMask ==
    \/ \E n \in Nodes, its \in ItemLists, p \in Nodes \cup {None} : New(n, its, p)
    \/ \E n \in Nodes, index_mode \in IndexModes, pts \in 1..MaxPts : DoMask(n, index_mode, pts)

SpecMask == InitMask /\ [][NextMask]_vars

\* The objects of n's tree that write samples themselves.
Contributing(s, n) == {m \in Subtree(s, n) : node[m].type # "Stimulus"}

\* The window of a contributing object, in time: [WindowStart, WindowEnd);
\* that of an Offset lasts to the end of the buffer of pts samples.
WindowStart(s, m) == GlobalStartTime(s, m)
WindowEnd(s, m, pts) ==
    IF node[m].type = "Offset" THEN Max({TimeAt(pts), WindowStart(s, m)})
    ELSE GlobalStartTime(s, m) + node[m].duration

\* No two contributing objects of n's tree have windows that share a time.
NonOverlapping(s, n, pts) ==
    \A a, b \in Contributing(s, n) :
        a # b => \/ WindowEnd(s, a, pts) <= WindowStart(s, b)
                 \/ WindowEnd(s, b, pts) <= WindowStart(s, a)
                 \/ WindowStart(s, a) = WindowEnd(s, a, pts)
                 \/ WindowStart(s, b) = WindowEnd(s, b, pts)

\* C7: on a tree whose contributing objects have non-overlapping windows, mask
\* on a new output marks sample i if and only if the time of sample i lies in
\* the window [global_start_time, global_start_time + duration) of some
\* contributing object (for an Offset: from its global_start_time to the end
\* of the buffer); a Stimulus marks nothing itself.
C7_MaskMarksWindows ==
    last.op = "mask" =>
        (NonOverlapping(st, last.self, Len(last.result.out.data))
            => \A i \in 0..(Len(last.result.out.data) - 1) :
                  (last.result.out.data[i + 1] = 1)
                     <=> \E m \in Contributing(st, last.self) :
                            /\ WindowStart(st, m) <= TimeAt(i)
                            /\ TimeAt(i) < WindowEnd(st, m, Len(last.result.out.data)))

\* ------------------------------------------------------ find_square_pulses

\* The number of samples of the trace that is detected on: room for one
\* pulse per link with a baseline sample before each and after the last.
DetectPts == 2 * MaxLinks + 1

RECURSIVE Changes(_, _)
\* changes = np.argwhere(np.diff(trace.data) != 0)[:, 0] + 1, from index c on:
\* the indices whose sample differs from the one before, ascending.
Changes(data, c) ==
    IF c >= Len(data) THEN <<>>
    ELSE (IF data[c + 1] # data[c] THEN <<c>> ELSE <<>>) \o Changes(data, c + 1)

\* stop = len(trace) for every change.
PulseStopLen(changes, i, n) == n

\* stop = changes[i+1] if (i+1 < len(changes)) else len(trace); i counts from 1 here.
PulseStop(changes, i, n) == IF i < Len(changes) THEN changes[i + 1] ELSE n

RECURSIVE FoundPulses(_, _, _, _)
\* for i, start in enumerate(changes): ... pulses.append(SquarePulse(...))
FoundPulses(data, baseline, changes, i) ==
    IF i > Len(changes) THEN <<>>
    ELSE LET start == changes[i]
             amp == FlAdd(data[start + 1], 0 - baseline)
         IN  (IF amp # 0
              THEN <<[start_time |-> TimeAt(start),
                      duration |-> (PulseStop(changes, i, Len(data)) - start) * DT,
                      amplitude |-> amp,
                      pulse_number |-> i - 1]>>
              ELSE <<>>) \o FoundPulses(data, baseline, changes, i + 1)

\* find_square_pulses(trace) of a trace with at least one sample, baseline=None.
FindSquarePulses(data) == FoundPulses(data, data[1], Changes(data, 1), 1)

\* SquarePulse(start_time, duration, amplitude) with start times on a sample
\* and between two samples, durations of half a sample, one and two samples.
DetectPulses ==
    {[type |-> "SquarePulse", start_time |-> t, duration |-> d[1], amplitude |-> d[2]] :
        t \in {DT, DT + 1, 3 * DT}, d \in {<<1, 1>>, <<DT, 2>>, <<2 * DT, 1>>}}

\* The pulses are constructed first, the Stimulus that takes them as items= last.
InitDetect ==
    /\ node \in {f \in [Nodes -> DetectPulses \cup {[type |-> "Stimulus", start_time |-> 0,
                                                     duration |-> 0, amplitude |-> 0]}] :
                    \A n \in Nodes : f[n].type = "Stimulus" <=> n = NumNodes}
    /\ created = {}
    /\ st = EmptyTree
    /\ last = NoCall
    /\ loader = <<>>
    /\ reads = 0
    /\ trace = <<>>
    /\ obj = None

\* find_square_pulses(n.eval(n_pts=DetectPts, dt=DT, index_mode=index_mode)).
\* The call changes no object and its result is kept in `last` alone.
Detect(n, index_mode) ==
    /\ last.op # "detect"
    /\ n \in created
    /\ node[n].type = "Stimulus"
    /\ Evaluable(st, n)
    /\ \E tr \in {EvalNode(st, n, Zeros(DetectPts), index_mode, "eval", NumNodes + 1)} :
          last' = [op |-> "detect", self |-> n, arg |-> None, index |-> index_mode, exc |-> "none",
                   result |-> [trace |-> tr.data, pulses |-> FindSquarePulses(tr.data)]]
    /\ UNCHANGED <<node, created, st, loader, reads, trace, obj>>

NextDetect ==
    \/ \E n \in Nodes, its \in ItemLists, p \in Nodes \cup {None} : New(n, its, p)
    \/ \E n \in Nodes, index_mode \in {"round", "floor", "ceil"} : Detect(n, index_mode)

SpecDetect == InitDetect /\ [][NextDetect]_vars

\* The index of the first sample of m's window, and of the first sample after it.
StartIndex(s, m, index_mode) == IndexAt(GlobalStartTime(s, m), index_mode)

StopIndex(s, m, index_mode) == IndexAt(GlobalStartTime(s, m) + node[m].duration, index_mode)

\* The children of n are SquarePulses without children of their own, with
\* non-zero amplitudes, whose sample windows lie inside the trace, do not
\* cover the first sample, do not overlap and have a baseline sample between
\* any two of them.
SeparatedPulses(s, n, index_mode) ==
    LET its == s.items[n]
        W(k) == OwnSamples(s, its[k], index_mode, DetectPts)
    IN  /\ \A k \in 1..Len(its) :
              /\ node[its[k]].type = "SquarePulse"
              /\ s.items[its[k]] = <<>>
              /\ node[its[k]].amplitude # 0
              /\ StartIndex(s, its[k], index_mode) >= 0
              /\ StopIndex(s, its[k], index_mode) <= DetectPts
              /\ 0 \notin W(k)
        /\ \A k, l \in 1..Len(its) :
              k # l => \A i \in W(k), j \in W(l) : Abs(i - j) >= 2

\* Every child of n has a sample in its window.
NonEmptyWindows(s, n, index_mode) ==
    \A k \in 1..Len(s.items[n]) : OwnSamples(s, s.items[n][k], index_mode, DetectPts) # {}

\* The pulses found are the children of n in the order of their windows, each
\* with the time of its first sample, its number of samples times dt, and its
\* amplitude.
Recovered(s, n, index_mode, pulses) ==
    LET its == s.items[n]
        rank(k) == 1 + Cardinality({l \in 1..Len(its) :
                           StartIndex(s, its[l], index_mode) < StartIndex(s, its[k], index_mode)})
    IN  /\ Len(pulses) = Len(its)
        /\ \A k \in 1..Len(its) :
              /\ pulses[rank(k)].start_time = TimeAt(StartIndex(s, its[k], index_mode))
              /\ pulses[rank(k)].duration = Cardinality(OwnSamples(s, its[k], index_mode, DetectPts)) * DT
              /\ pulses[rank(k)].amplitude = node[its[k]].amplitude

\* C5: for a list of SquarePulses with non-zero amplitudes whose sample
\* windows lie inside the trace, do not overlap, are separated by a baseline
\* sample and do not cover the first sample, find_square_pulses of their
\* evaluation onto a zero trace returns one pulse per pulse of the list, in
\* the order of the start times, with the same start sample time, duration
\* (samples times dt) and amplitude.
C5_DetectInvertsEval ==
    (last.op = "detect" /\ SeparatedPulses(st, last.self, last.index))
        => Recovered(st, last.self, last.index, last.result.pulses)

\* C5, for lists in which every pulse has at least one sample in its window:
\* the pulses found are the pulses of the list.
C5_DetectInvertsEvalNonEmpty ==
    (last.op = "detect" /\ SeparatedPulses(st, last.self, last.index)
                        /\ NonEmptyWindows(st, last.self, last.index))
        => Recovered(st, last.self, last.index, last.result.pulses)

\* Two pulses, the later one first in the list and two samples long, the
\* other with another amplitude, have been evaluated and found in the order
\* of their start times.
C5_Witness ==
    /\ last.op = "detect"
    /\ Len(st.items[last.self]) = 2
    /\ SeparatedPulses(st, last.self, last.index)
    /\ NonEmptyWindows(st, last.self, last.index)
    /\ StartIndex(st, st.items[last.self][1], last.index) > StartIndex(st, st.items[last.self][2], last.index)
    /\ Cardinality(OwnSamples(st, st.items[last.self][1], last.index, DetectPts)) = 2
    /\ node[st.items[last.self][1]].amplitude # node[st.items[last.self][2]].amplitude
    /\ Len(last.result.pulses) = 2
    /\ last.result.pulses[1].amplitude = node[st.items[last.self][2]].amplitude
    /\ last.result.pulses[2].duration = 2 * DT

\* ------------------------------------- SquarePulseTrain, SquarePulseSeries

MaxPulses == 3

\* SquarePulse(start_time=t, duration=pulse_duration, amplitude=amplitude, units=units)
\* of the i-th turn of SquarePulseTrain's loop, i counting from 0.
TrainPulse(kw, i) ==
    Instance("SquarePulse",
        [start_time |-> i * kw.interval, duration |-> kw.pulse_duration,
         amplitude |-> kw.amplitude, units |-> (kw @@ Defaults("SquarePulse")).units])

\* The pulse of the i-th turn of SquarePulseSeries's loop, i counting from 1 here.
SeriesPulse(kw, i) ==
    Instance("SquarePulse",
        [start_time |-> kw.pulse_times[i], duration |-> kw.pulse_durations[i],
         amplitude |-> kw.amplitudes[i], units |-> (kw @@ Defaults("SquarePulse")).units])

RECURSIVE TrainNumbers(_, _, _, _)
\* pulse.pulse_number = i, and the parent the constructor gave, of the pulses
\* that are in the train's children list, in the order of the list.
TrainNumbers(kw, i, its, info) ==
    IF i >= kw.n_pulses THEN info
    ELSE \* (the one-element set binds the list once)
         CHOOSE out \in
           {TrainNumbers(kw, i + 1, its2,
                IF Len(its2) > Len(its) THEN Append(info, [pulse_number |-> i, parent |-> "self"]) ELSE info) :
              its2 \in {AddByParent(its, TrainPulse(kw, i))}} : TRUE

RECURSIVE SeriesNumbers(_, _, _, _)
\* The same for SquarePulseSeries; pulse_number = i - 1 for the i-th entry.
SeriesNumbers(kw, i, its, info) ==
    IF i > Len(kw.pulse_times) THEN info
    ELSE CHOOSE out \in
           {SeriesNumbers(kw, i + 1, its2,
                IF Len(its2) > Len(its) THEN Append(info, [pulse_number |-> i - 1, parent |-> "self"]) ELSE info) :
              its2 \in {AddByParent(its, SeriesPulse(kw, i))}} : TRUE

InitPulses ==
    /\ node = [n \in Nodes |-> [type |-> "Stimulus", start_time |-> 0, duration |-> 0, amplitude |-> 0]]
    /\ created = {}
    /\ st = EmptyTree
    /\ last = NoCall
    /\ loader = <<>>
    /\ reads = 0
    /\ trace = <<>>
    /\ obj = None

\* obj = SquarePulseTrain(start_time=0, n_pulses=n, pulse_duration=d, amplitude=a, interval=iv)
NewTrain(n, d, a, iv) ==
    /\ \E kw \in {[start_time |-> 0, n_pulses |-> n, pulse_duration |-> d, amplitude |-> a, interval |-> iv]} :
       \E r \in {NewObj("SquarePulseTrain", kw, <<>>)} :
          /\ obj' = r.obj
          /\ last' = [op |-> "train", self |-> None, arg |-> kw, index |-> 0, exc |-> r.exc,
                      result |-> TrainNumbers(kw, 0, <<>>, <<>>)]
    /\ UNCHANGED <<node, created, st, loader, reads, trace>>

\* obj = SquarePulseSeries(start_time=0, pulse_times=ts, pulse_durations=ds, amplitudes=as)
NewSeries(ts, ds, as) ==
    /\ \E kw \in {[start_time |-> 0, pulse_times |-> ts, pulse_durations |-> ds, amplitudes |-> as]} :
       \E r \in {NewObj("SquarePulseSeries", kw, <<>>)} :
          /\ obj' = r.obj
          /\ last' = [op |-> "series", self |-> None, arg |-> kw, index |-> 0, exc |-> r.exc,
                      result |-> IF r.exc = "none" THEN SeriesNumbers(kw, 1, <<>>, <<>>) ELSE <<>>]
    /\ UNCHANGED <<node, created, st, loader, reads, trace>>

\* The arrays a series is made of: up to MaxPulses - 1 entries.
PulseArrays(S) == UNION {[1..k -> S] : k \in 0..(MaxPulses - 1)}

NextPulses ==
    \/ \E n \in 0..MaxPulses, d \in {1, 2}, a \in {1, 2}, iv \in 0..2 : NewTrain(n, d, a, iv)
    \/ \E ts \in PulseArrays({0, 1}), ds \in PulseArrays({1}), as \in PulseArrays({1, 2}) :
          NewSeries(ts, ds, as)

SpecPulses == InitPulses /\ [][NextPulses]_vars

\* C11: a SquarePulseTrain built with n_pulses = n has exactly n SquarePulse
\* children, the i-th (from 0) with start_time i*interval, pulse_number i and
\* the train as parent; a SquarePulseSeries built with k entries has exactly
\* k SquarePulse children, the i-th with pulse_times[i], pulse_durations[i]
\* and amplitudes[i].
C11_OneChildPerPulse ==
    /\ last.op = "train" =>
          /\ last.exc = "none"
          /\ Len(obj.items) = last.arg.n_pulses
          /\ \A i \in 0..(last.arg.n_pulses - 1) :
                /\ obj.items[i + 1].type = "SquarePulse"
                /\ obj.items[i + 1].attrs.start_time = i * last.arg.interval
                /\ obj.items[i + 1].attrs.duration = last.arg.pulse_duration
                /\ obj.items[i + 1].attrs.amplitude = last.arg.amplitude
                /\ last.result[i + 1] = [pulse_number |-> i, parent |-> "self"]
    /\ (last.op = "series" /\ last.exc = "none") =>
          /\ Len(obj.items) = Len(last.arg.pulse_times)
          /\ \A i \in 1..Len(last.arg.pulse_times) :
                /\ obj.items[i].type = "SquarePulse"
                /\ obj.items[i].attrs.start_time = last.arg.pulse_times[i]
                /\ obj.items[i].attrs.duration = last.arg.pulse_durations[i]
                /\ obj.items[i].attrs.amplitude = last.arg.amplitudes[i]

\* -------------------------------------------------------------- index_mode

\* Stimulus(), SquarePulse(1, DT, 1) and Offset(1, start_time=1): windows
\* that start between two samples, where the three index modes differ.
ModeNodeSet ==
    {[type |-> "Stimulus", start_time |-> 0, duration |-> 0, amplitude |-> 0],
     [type |-> "SquarePulse", start_time |-> 1, duration |-> DT, amplitude |-> 1],
     [type |-> "Offset", start_time |-> 1, duration |-> 0, amplitude |-> 1]}

InitMode ==
    /\ node \in [Nodes -> ModeNodeSet]
    /\ created = {}
    /\ st = EmptyTree
    /\ last = NoCall
    /\ loader = <<>>
    /\ reads = 0
    /\ trace = <<>>
    /\ obj = None

\* n.eval(n_pts=MaxPts, dt=DT, index_mode=index_mode) or n.mask(...) with
\* the same arguments; index_mode "None" is a call without that argument.
EvalOrMask(op, n, index_mode) ==
    /\ last.op \notin {"eval", "mask"}
    /\ n \in created
    /\ Evaluable(st, n)
    /\ \E out \in {EvalNode(st, n, Zeros(MaxPts), index_mode, op, NumNodes + 1)} :
          last' = [op |-> op, self |-> n, arg |-> None, index |-> index_mode, exc |-> "none",
                   result |-> [out |-> out]]
    /\ UNCHANGED <<node, created, st, loader, reads, trace, obj>>

NextMode ==
    \/ \E n \in Nodes, its \in ItemLists, p \in Nodes \cup {None} : New(n, its, p)
    \/ \E op \in {"eval", "mask"}, n \in Nodes, index_mode \in IndexModes : EvalOrMask(op, n, index_mode)

SpecMode == InitMode /\ [][NextMode]_vars

RECURSIVE SameMode(_, _, _, _, _, _), SameModeItems(_, _, _, _, _, _, _)
\* The traversal of eval and mask in which every object, the first one
\* included, converts its window with the one index mode given.
SameMode(s, n, buf, index_mode, op, fuel) ==
    IF fuel = 0 THEN buf
    ELSE CHOOSE out \in
           {Own(s, n, b, index_mode, op) :
              b \in {SameModeItems(s, s.items[n], 1, buf, index_mode, op, fuel - 1)}} : TRUE

SameModeItems(s, its, i, buf, index_mode, op, fuel) ==
    IF i > Len(its) THEN buf
    ELSE CHOOSE out \in
           {SameModeItems(s, its, i + 1, b, index_mode, op, fuel) :
              b \in {SameMode(s, its[i], buf, index_mode, op, fuel)}} : TRUE

MaxSamples == 5

\* trace.data[:200] is the default baseline.
BaselineLen == 200

\* The traces pulses are looked for in: 1 to MaxSamples samples of 0, 1 or 2,
\* with t0 = 0 and dt = DT.
Traces == UNION {[1..k -> 0..2] : k \in 1..MaxSamples}

InitFind ==
    /\ node = [n \in Nodes |-> [type |-> "Stimulus", start_time |-> 0, duration |-> 0, amplitude |-> 0]]
    /\ created = {}
    /\ st = EmptyTree
    /\ last = NoCall
    /\ loader = <<>>
    /\ reads = 0
    /\ trace \in Traces
    /\ obj = None

RECURSIVE Sum(_, _)
\* x.sum() from element i on
Sum(x, i) == IF i > Len(x) THEN 0 ELSE x[i] + Sum(x, i + 1)

RECURSIVE SumSq(_, _)
SumSq(x, i) == IF i > Len(x) THEN 0 ELSE x[i] * x[i] + SumSq(x, i + 1)

\* baseline = trace.data[:200] when no baseline is given; <<>> stands for
\* Python's None here.
BaselineOf(data, baseline) ==
    IF baseline = <<>>
    THEN SubSeq(data, 1, IF Len(data) < BaselineLen THEN Len(data) ELSE BaselineLen)
    ELSE baseline

\* len(baseline)**2 times the variance of the baseline (baseline.std() squared)
VarN2(base) == Len(base) * SumSq(base, 1) - Sum(base, 1) * Sum(base, 1)

\* sdiff[c] of sdiff = np.diff(trace.data - baseline.mean()), c from 0; a
\* negative index counts from the end of sdiff.
SDiff(data, c) ==
    LET k == IF c < 0 THEN (Len(data) - 1) + c ELSE c
    IN  data[k + 2] - data[k + 1]

\* abs(d) > threshold, threshold = baseline.std()*std_threshold with
\* std_threshold >= 0, compared in exact arithmetic by the squares.
Above(d, base, std_threshold) ==
    d * d * Len(base) * Len(base) > VarN2(base) * std_threshold * std_threshold

\* abs(d) < threshold
Below(d, base, std_threshold) ==
    d * d * Len(base) * Len(base) < VarN2(base) * std_threshold * std_threshold

RECURSIVE NoisyChanges(_, _, _, _)
\* changes = np.argwhere(abs(sdiff) > threshold)[:, 0], from index c on
NoisyChanges(data, base, std_threshold, c) ==
    IF c > Len(data) - 2 THEN <<>>
    ELSE (IF Above(SDiff(data, c), base, std_threshold) THEN <<c>> ELSE <<>>)
            \o NoisyChanges(data, base, std_threshold, c + 1)

RECURSIVE RealChanges(_, _, _, _, _)
\* for c in changes: if (abs(sdiff[c-1]) < threshold) and (abs(sdiff[c]) > threshold):
\*     real_changes.append(c+1)
RealChanges(data, base, std_threshold, changes, i) ==
    IF i > Len(changes) THEN <<>>
    ELSE (IF /\ Below(SDiff(data, changes[i] - 1), base, std_threshold)
             /\ Above(SDiff(data, changes[i]), base, std_threshold)
          THEN <<changes[i] + 1>> ELSE <<>>)
            \o RealChanges(data, base, std_threshold, changes, i + 1)

\* trace.data[start:stop].mean() - baseline.mean(), as a fraction
SegmentAmplitude(data, start, stop, base) ==
    [num |-> Len(base) * Sum(SubSeq(data, start + 1, stop), 1) - (stop - start) * Sum(base, 1),
     den |-> (stop - start) * Len(base)]

\* Every segment is kept.
KeepsAll(duration, amplitude, min_duration, min_amplitude) == TRUE

\* duration > min_duration and abs(amplitude) > min_amplitude
Keeps(duration, amplitude, min_duration, min_amplitude) ==
    /\ duration > min_duration
    /\ Abs(amplitude.num) > min_amplitude * amplitude.den

RECURSIVE NoisyPulses(_, _, _, _, _, _, _, _)
\* The loop over the changes of find_noisy_square_pulses; segs collects every
\* segment the loop measures, pulses the ones it appends.
NoisyPulses(data, base, changes, i, stop, min_duration, min_amplitude, out) ==
    IF i > Len(changes) THEN out
    ELSE IF Len(out.pulses) > 0 /\ stop >= changes[i]
    THEN NoisyPulses(data, base, changes, i + 1, stop, min_duration, min_amplitude, out)
    ELSE LET start == changes[i]
             stop2 == IF Len(changes) > i THEN changes[i + 1] ELSE Len(data)
             pulse == [start_time |-> TimeAt(start),
                       duration |-> (stop2 - start) * DT,
                       amplitude |-> SegmentAmplitude(data, start, stop2, base)]
         IN  NoisyPulses(data, base, changes, i + 1, stop2, min_duration, min_amplitude,
                [segs |-> Append(out.segs, pulse),
                 pulses |-> IF Keeps(pulse.duration, pulse.amplitude, min_duration, min_amplitude)
                            THEN Append(out.pulses, pulse) ELSE out.pulses])

\* find_noisy_square_pulses(trace, baseline, std_threshold, min_duration, min_amplitude)
FindNoisySquarePulses(data, baseline, std_threshold, min_duration, min_amplitude) ==
    LET base == BaselineOf(data, baseline)
    IN  CHOOSE r \in
          {[changes |-> rc, found |-> NoisyPulses(data, base, rc, 1, 0, min_duration, min_amplitude,
                                                  [segs |-> <<>>, pulses |-> <<>>])] :
              rc \in {RealChanges(data, base, std_threshold,
                                  NoisyChanges(data, base, std_threshold, 0), 1)}} : TRUE

\* The baselines given: none, a constant one (std 0), one with std 1/2 and
\* one with std 1.
Baselines == {<<>>, <<0, 0>>, <<0, 1>>, <<0, 2>>}

\* find_noisy_square_pulses(trace, ...); the call changes nothing and its
\* result is kept in `last` alone.
FindNoisy(baseline, std_threshold, min_duration, min_amplitude) ==
    /\ last.op = "none"
    /\ last' = [op |-> "noisy", self |-> None,
                arg |-> [baseline |-> baseline, std_threshold |-> std_threshold,
                         min_duration |-> min_duration, min_amplitude |-> min_amplitude],
                index |-> 0, exc |-> "none",
                result |-> FindNoisySquarePulses(trace, baseline, std_threshold, min_duration, min_amplitude)]
    /\ UNCHANGED <<node, created, st, loader, reads, trace, obj>>

NextNoisy ==
    \E baseline \in Baselines, std_threshold \in 0..2, min_duration \in {0, DT, 2 * DT},
       min_amplitude \in {0, 1} :
          FindNoisy(baseline, std_threshold, min_duration, min_amplitude)

SpecNoisy == InitFind /\ [][NextNoisy]_vars

\* C13: every pulse find_noisy_square_pulses returns has a duration not
\* shorter than min_duration and an absolute amplitude not below
\* min_amplitude, and is one of the segments that were measured and kept.
C13_ReturnedPulsesPassFilter ==
    last.op = "noisy" =>
        \A k \in 1..Len(last.result.found.pulses) :
            LET pulse == last.result.found.pulses[k]
            IN  /\ pulse.duration >= last.arg.min_duration
                /\ Abs(pulse.amplitude.num) >= last.arg.min_amplitude * pulse.amplitude.den
                /\ \E j \in 1..Len(last.result.found.segs) : last.result.found.segs[j] = pulse

\* A call with min_duration and min_amplitude above 0 has measured two
\* segments, discarded one and returned the other.
C13_Witness ==
    /\ last.op = "noisy"
    /\ last.arg.min_duration > 0
    /\ last.arg.min_amplitude > 0
    /\ Len(last.result.found.segs) = 2
    /\ Len(last.result.found.pulses) = 1

\* C16: sample index c+1 is a boundary if and only if the first difference at
\* c exceeds the threshold and the difference before it, at c-1, did not; for
\* every threshold, 0 included, and for c = 0 whatever the last difference is.
C16_BoundaryIffRisingEdge ==
    last.op = "noisy" =>
        LET base == BaselineOf(trace, last.arg.baseline)
        IN  \A c \in 0..(Len(trace) - 2) :
               (\E k \in 1..Len(last.result.changes) : last.result.changes[k] = c + 1)
                  <=> /\ Above(SDiff(trace, c), base, last.arg.std_threshold)
                      /\ (c > 0 => ~Above(SDiff(trace, c - 1), base, last.arg.std_threshold))

\* ------------------------------------- find_square_pulses on any trace

\* if baseline is None: baseline = trace.data[0]; the argument is <<>> for
\* None and <<b>> for the number b.
BaselineValue(data, baseline) == IF baseline = <<>> THEN data[1] ELSE baseline[1]

\* find_square_pulses(trace, baseline)
FindSquarePulsesFrom(data, baseline) ==
    FoundPulses(data, BaselineValue(data, baseline), Changes(data, 1), 1)

\* find_square_pulses(trace, baseline=baseline); the call changes nothing and
\* its result is kept in `last` alone.
FindSquare(baseline) ==
    /\ last.op = "none"
    /\ last' = [op |-> "square", self |-> None, arg |-> baseline, index |-> 0, exc |-> "none",
                result |-> FindSquarePulsesFrom(trace, baseline)]
    /\ UNCHANGED <<node, created, st, loader, reads, trace, obj>>

NextSquare == \E baseline \in {<<>>, <<0>>, <<1>>} : FindSquare(baseline)

SpecSquare == InitFind /\ [][NextSquare]_vars

\* C14: the k-th pulse find_square_pulses returns, counting from 0, carries
\* pulse_number k.
C14_NumberedInOrder ==
    last.op = "square" =>
        \A k \in 1..Len(last.result) : last.result[k].pulse_number = k - 1

\* The maximal runs of samples with one value other than the baseline:
\* samples a..b-1, counted from 0.
Runs(data, baseline) ==
    {r \in [a : 0..(Len(data) - 1), b : 1..Len(data)] :
        /\ r.a < r.b
        /\ data[r.a + 1] # baseline
        /\ \A i \in r.a..(r.b - 1) : data[i + 1] = data[r.a + 1]
        /\ (r.a > 0 => data[r.a] # data[r.a + 1])
        /\ (r.b < Len(data) => data[r.b + 1] # data[r.a + 1])}

\* C15: for any trace and any baseline, given or the first sample, every
\* maximal run of samples with a constant value other than the baseline is
\* returned by find_square_pulses as exactly one pulse, with amplitude = run
\* value - baseline and duration = run length * dt; a run that begins at the
\* first sample and a run that lasts to the last sample included.
C15_EveryRunIsOnePulse ==
    last.op = "square" =>
        LET baseline == BaselineValue(trace, last.arg)
        IN  \A r \in Runs(trace, baseline) :
               Cardinality({k \in 1..Len(last.result) :
                               /\ last.result[k].start_time = TimeAt(r.a)
                               /\ last.result[k].duration = (r.b - r.a) * DT
                               /\ last.result[k].amplitude = trace[r.a + 1] - baseline}) = 1

\* ------------------------------------------------------------- insert_item

\* C17: q.insert_item(index, x) with 0 <= index <= len(q.items), for x
\* without a parent or with a parent other than q, leaves x at position index
\* of q's children list, the other children of q keeping their order.
C17_InsertLandsAtIndex ==
    [][(/\ last'.op = "insert_item"
        /\ last'.exc = "none"
        /\ st.parent[last'.arg] # last'.self)
          => /\ Len(st'.items[last'.self]) = Len(st.items[last'.self]) + 1
             /\ st'.items[last'.self][last'.index + 1] = last'.arg
             /\ SeqRemoveAt(st'.items[last'.self], last'.index + 1) = st.items[last'.self]]_vars

====
